---- MODULE Spec2Model ----
(***************************************************************************)
(* Model of textual's LRUCache and fifo_cache (src/textual/_cache.py), of  *)
(* the TreeNode traversal (src/textual/widgets/_tree_node.py), of the      *)
(* TreeControl cursor (src/textual/widgets/_tree_control.py) and of the    *)
(* bubbling of messages through the widgets that own the control.          *)
(*                                                                         *)
(* A cache entry is the Python list [PREV, NEXT, KEY, VALUE]; the heap     *)
(* maps an entry's identity to its cells, and <<>> is the empty list that  *)
(* __init__ and clear() install as the root. A tree node is identified by  *)
(* its node_id.                                                            *)
(***************************************************************************)
EXTENDS Integers, Sequences, FiniteSets, TLC

\* ---------------------------------------------------------------- bounds
MaxSize == 2
NumKeys == 3
NumEntries == 5
NumThreads == 2
MaxCalls == 4
MaxFifo == 3
NumArgs == 4
MaxNodes == 5
MaxCtlNodes == 4
MaxLine == 2
ChainLen == 4

Keys == 1..NumKeys
\* The cache stores values and hands them back; it never looks into one, so
\* two distinct values tell an overwritten entry from a stale one.
Values == {"v1", "v2"}
Ids == 1..NumEntries
Threads == 1..NumThreads
\* LRUCache.__init__ accepts any int as maxsize.
Capacities == (0 - 1)..MaxSize

\* Optional values: Python's None is <<>>, a present value v is <<v>>.
None == <<>>
Some(v) == <<v>>

\* Slots of an entry, [PREV, NEXT, KEY, VALUE] (Python indices 0..3).
PREV == 1
NEXT == 2
KEY == 3
VALUE == 4

VARIABLES
  maxsize,   \* self.maxsize
  cache,     \* self.cache: key -> entry identity
  full,      \* self.full
  root,      \* self.root: identity of the root list
  heap,      \* entry identity -> cells of the list
  lock,      \* self._lock: None, or Some(thread) holding it
  calls,     \* number of calls the threads have started
  pc,        \* per thread: position in the method it is running
  frame,     \* per thread: the running call's arguments and locals
  last,      \* outcome of the operation that returned (or raised) last
  lastUse,   \* history: contained keys, least recently accessed first
  sinceClear \* history: the keys set and evicted since the last clear(),
             \* kept while at most maxsize distinct keys have been set

VARIABLES
  fmaxsize,  \* fifo_cache: the decorator's maxsize
  queue,     \* fifo_cache: the deque of memoized argument tuples
  fcache,    \* fifo_cache: the dict args -> result
  inserted,  \* history: the memoized arguments, earliest inserted first
  hits,      \* history: the memoized arguments that a call has hit
  flast      \* outcome of the last call of the wrapped function

VARIABLES
  node_id,   \* TreeControl.node_id: the id given out last
  nodes,     \* TreeControl.nodes: the ids in the index
  parent,    \* TreeNode.parent, by node id (None for the root)
  children,  \* TreeNode.children, by node id
  expanded,  \* TreeNode._expanded, by node id
  probe      \* the traversal property read last, and what it returned

VARIABLES
  cursor,       \* TreeControl.cursor: the id of the cursor node
  cursor_line,  \* TreeControl.cursor_line
  show_cursor,  \* TreeControl.show_cursor
  posted,       \* the messages the control has handed to post_message, oldest first
  tlast         \* outcome of the last call on the control or one of its nodes

VARIABLES
  owner,        \* the ownership chain: each widget's parent (None for the root)
  handlers,     \* what each widget's handler for the message in flight does
  msg,          \* the message in flight (None when the dispatcher is idle)
  attempts      \* the widgets the message in flight was attempted at, in order

ctlVars == <<cursor, cursor_line, show_cursor, posted, tlast>>
busVars == <<owner, handlers, msg, attempts>>

fifoVars == <<fmaxsize, queue, fcache, inserted, hits, flast>>
treeVars == <<node_id, nodes, parent, children, expanded, probe, ctlVars, busVars>>

lruVars == <<maxsize, cache, full, root, heap, lock, calls, pc, frame, last, lastUse, sinceClear>>

\* ------------------------------------------------------- heap and garbage
RECURSIVE Reach(_, _)
Reach(h, seen) ==
  LET more == {h[i][PREV] : i \in {j \in seen : h[j] # <<>>}}
              \cup {h[i][NEXT] : i \in {j \in seen : h[j] # <<>>}}
  IN IF more \subseteq seen THEN seen ELSE Reach(h, seen \cup more)

\* Identities a running call still holds in its locals.
Held(fr) == UNION {{fr[t].link[i] : i \in 1..Len(fr[t].link)} : t \in Threads}

\* The store a method works on: the cache's fields plus the heap.
Store == [maxsize |-> maxsize, cache |-> cache, full |-> full, root |-> root, heap |-> heap]

Range(f) == {f[x] : x \in DOMAIN f}

Live(S, held) == Reach(S.heap, {S.root} \cup Range(S.cache) \cup held)

\* Lists nothing refers to any more are reclaimed.
Collect(S, held) ==
  [S EXCEPT !.heap = [i \in Ids |-> IF i \in Live(S, held) THEN S.heap[i] ELSE <<>>]]

\* Identity of a newly created list.
Fresh(S, held) ==
  LET free == Ids \ Live(S, held)
  IN CHOOSE i \in free : \A j \in free : i <= j

CanAllocate(S, held) == Ids \ Live(S, held) # {}

\* The ring as a sequence, walking NEXT from entry e.
RECURSIVE RingSeq(_, _, _)
RingSeq(h, e, acc) ==
  IF h[e] = <<>> \/ \E i \in 1..Len(acc) : acc[i] = e THEN acc
  ELSE RingSeq(h, h[e][NEXT], Append(acc, e))

RECURSIVE Ascending(_)
Ascending(ids) ==
  IF ids = {} THEN <<>>
  ELSE LET m == CHOOSE i \in ids : \A j \in ids : i <= j
       IN <<m>> \o Ascending(ids \ {m})

\* A list's identity is only ever compared with `is`, so which identity a
\* list has does not matter: with one caller the lists are named in ring
\* order from the root, then the other live lists.
Canon(S) ==
  LET ring == IF S.heap[S.root] = <<>> THEN <<S.root>> ELSE RingSeq(S.heap, S.root, <<>>)
      order == ring \o Ascending(Live(S, {}) \ {ring[i] : i \in 1..Len(ring)})
      name == [o \in {order[p] : p \in 1..Len(order)} |->
                 CHOOSE p \in 1..Len(order) : order[p] = o]
      new(o) == name[o]
      cells(o) == IF S.heap[o] = <<>> THEN <<>>
                  ELSE <<new(S.heap[o][PREV]), new(S.heap[o][NEXT]),
                         S.heap[o][KEY], S.heap[o][VALUE]>>
  IN [S EXCEPT !.root = new(S.root),
               !.cache = [k \in DOMAIN S.cache |-> new(S.cache[k])],
               !.heap = [i \in Ids |-> IF i <= Len(order) THEN cells(order[i]) ELSE <<>>]]

\* What one caller leaves behind when a method returns.
Tidy(S) == Canon(S)

\* ------------------------------------------------------- LRUCache methods
CacheLen(S) == Cardinality(DOMAIN S.cache)
Contains(S, key) == key \in DOMAIN S.cache

\* set, lines 70-76: link the new entry in as the root.
InsertNew(S, held, key, value) ==
  IF S.heap[S.root] = <<>>
  THEN [S EXCEPT !.heap[S.root] = <<S.root, S.root, key, value>>]
  ELSE LET r == S.root
           n == Fresh(S, held)
           h1 == [S.heap EXCEPT ![n] = <<S.heap[r][PREV], r, key, value>>]
           h2 == [h1 EXCEPT ![h1[r][PREV]][NEXT] = n]
           h3 == [h2 EXCEPT ![r][PREV] = n]
       IN [S EXCEPT !.root = n, !.heap = h3]

\* set, line 77.
IndexNew(S, key) ==
  [S EXCEPT !.cache = [k \in DOMAIN S.cache \cup {key} |->
                         IF k = key THEN S.root ELSE S.cache[k]]]

\* set, line 79.
Overflow(S) == S.full \/ CacheLen(S) > S.maxsize

\* set, lines 80-85: unlink the entry before the root and drop its key.
\* del raises KeyError when the key is not in the index.
Evict(S) ==
  LET r == S.root
      lst == S.heap[r][PREV]
      h1 == [S.heap EXCEPT ![S.heap[lst][PREV]][NEXT] = r]
      h2 == [h1 EXCEPT ![r][PREV] = h1[lst][PREV]]
      victim == h2[lst][KEY]
  IN IF victim \in DOMAIN S.cache
     THEN [store |-> [S EXCEPT !.full = TRUE, !.heap = h2,
                               !.cache = [k \in DOMAIN S.cache \ {victim} |-> S.cache[k]]],
           raised |-> "", evicted |-> {victim}]
     ELSE [store |-> [S EXCEPT !.full = TRUE, !.heap = h2],
           raised |-> "KeyError", evicted |-> {}]

\* get / __getitem__, lines 116-123 (130-137): move link to the root position.
\* root[0] raises IndexError when the root list is empty.
Relink(S, link) ==
  LET h1 == [S.heap EXCEPT ![S.heap[link][PREV]][NEXT] = S.heap[link][NEXT]]
      h2 == [h1 EXCEPT ![h1[link][NEXT]][PREV] = h1[link][PREV]]
      r == S.root
  IN IF h2[r] = <<>>
     THEN [store |-> [S EXCEPT !.heap = h2], raised |-> "IndexError"]
     ELSE LET h3 == [h2 EXCEPT ![link][PREV] = h2[r][PREV]]
              h4 == [h3 EXCEPT ![link][NEXT] = r]
              h5 == [h4 EXCEPT ![h4[r][PREV]][NEXT] = link]
              h6 == [h5 EXCEPT ![r][PREV] = link]
          IN [store |-> [S EXCEPT !.root = link, !.heap = h6], raised |-> ""]

\* clear, line 56.
ClearIndex(S) == [S EXCEPT !.cache = <<>>]

\* Mutant of ResetRoot: the full flag survives clear().
ResetRootKeepsFull(S, held) ==
  LET n == Fresh(S, held)
  IN [S EXCEPT !.root = n, !.heap[n] = <<>>]

\* clear, lines 57-58: the new root is a new, empty list.
ResetRoot(S, held) ==
  LET S1 == [S EXCEPT !.full = FALSE]
      n == Fresh(S1, held)
  IN [S1 EXCEPT !.root = n, !.heap[n] = <<>>]

\* ------------------------------------------------------------- histories
Without(s, k) == SelectSeq(s, LAMBDA x : x # k)
Restrict(s, ks) == SelectSeq(s, LAMBDA x : x \in ks)
\* An access of key makes it the most recently used of the contained keys.
Touch(s, key, contained) == Restrict(Append(Without(s, key), key), contained)

NoWindow == [cleared |-> FALSE, wasFull |-> FALSE, sets |-> {}, evicted |-> {}]

\* A set of key, which evicted the keys in gone, seen from the last clear().
Window(sc, size, key, gone) ==
  IF sc.cleared /\ Cardinality(sc.sets \cup {key}) <= size
  THEN [sc EXCEPT !.sets = @ \cup {key}, !.evicted = @ \cup gone]
  ELSE NoWindow

Outcome(op, key, arg, ret, raised, evicted) ==
  [op |-> op, key |-> key, arg |-> arg, ret |-> ret, raised |-> raised,
   evicted |-> evicted]

IdleFrame == [op |-> "", key |-> None, value |-> None, link |-> None]

Install(S) ==
  /\ cache' = S.cache
  /\ full' = S.full
  /\ root' = S.root
  /\ heap' = S.heap
  /\ maxsize' = S.maxsize

\* ------------------------------------------------------ state after __init__
LruInit ==
  /\ maxsize \in Capacities
  /\ cache = <<>>
  /\ full = FALSE
  /\ root = 1
  /\ heap = [i \in Ids |-> <<>>]
  /\ lock = None
  /\ calls = 0
  /\ pc = [t \in Threads |-> "idle"]
  /\ frame = [t \in Threads |-> IdleFrame]
  /\ last = Outcome("init", None, None, None, "", {})
  /\ lastUse = <<>>
  /\ sinceClear = NoWindow

\* ------------------------------------------- one caller: whole method calls
\* set (lines 60-85). A key already in the index takes neither branch.
Set(key, value) ==
  LET S == Store
      held == {}
  IN /\ \A t \in Threads : pc[t] = "idle"
     /\ IF Contains(S, key)
        THEN /\ UNCHANGED <<maxsize, cache, full, root, heap>>
             /\ last' = Outcome("set", Some(key), Some(value), None, "", {})
             /\ lastUse' = Touch(lastUse, key, DOMAIN cache)
             /\ sinceClear' = Window(sinceClear, maxsize, key, {})
        ELSE /\ CanAllocate(S, held)
             /\ LET S1 == IndexNew(InsertNew(S, held, key, value), key)
                    R == IF Overflow(S1) THEN Evict(S1)
                         ELSE [store |-> S1, raised |-> "", evicted |-> {}]
                IN /\ Install(Tidy(R.store))
                   /\ last' = Outcome("set", Some(key), Some(value), None,
                                      R.raised, R.evicted)
                   /\ lastUse' = Touch(lastUse, key, DOMAIN R.store.cache)
                   /\ sinceClear' = Window(sinceClear, maxsize, key, R.evicted)
     /\ UNCHANGED <<lock, calls, pc, frame>>
     /\ UNCHANGED <<fifoVars, treeVars>>

\* The part get and __getitem__ share once the key is found (lines 114-124).
Found(op, key) ==
  LET S == Store
      link == S.cache[key]
  IN IF link = S.root
     THEN /\ UNCHANGED <<maxsize, cache, full, root, heap>>
          /\ last' = Outcome(op, Some(key), None, Some(S.heap[link][VALUE]), "", {})
     ELSE LET R == Relink(S, link)
          IN /\ Install(Tidy(R.store))
             /\ last' = Outcome(op, Some(key), None,
                                IF R.raised = "" THEN Some(R.store.heap[link][VALUE])
                                ELSE None,
                                R.raised, {})

\* get (lines 99-124) with the default left at None.
Get(key) ==
  /\ \A t \in Threads : pc[t] = "idle"
  /\ IF Contains(Store, key)
     THEN /\ Found("get", key)
          /\ lastUse' = Touch(lastUse, key, DOMAIN cache)
     ELSE /\ UNCHANGED <<maxsize, cache, full, root, heap, lastUse>>
          /\ last' = Outcome("get", Some(key), None, None, "", {})
  /\ UNCHANGED <<lock, calls, pc, frame, sinceClear>>
  /\ UNCHANGED <<fifoVars, treeVars>>

\* __getitem__ (lines 126-138): a missing key raises KeyError.
GetItem(key) ==
  /\ \A t \in Threads : pc[t] = "idle"
  /\ IF Contains(Store, key)
     THEN /\ Found("getitem", key)
          /\ lastUse' = Touch(lastUse, key, DOMAIN cache)
     ELSE /\ UNCHANGED <<maxsize, cache, full, root, heap, lastUse>>
          /\ last' = Outcome("getitem", Some(key), None, None, "KeyError", {})
  /\ UNCHANGED <<lock, calls, pc, frame, sinceClear>>
  /\ UNCHANGED <<fifoVars, treeVars>>

\* clear (lines 53-58).
Clear ==
  /\ \A t \in Threads : pc[t] = "idle"
  /\ CanAllocate(ClearIndex(Store), {})
  /\ Install(Tidy(ResetRoot(ClearIndex(Store), {})))
  /\ last' = Outcome("clear", None, None, None, "", {})
  /\ lastUse' = <<>>
  /\ sinceClear' = [cleared |-> TRUE, wasFull |-> full, sets |-> {}, evicted |-> {}]
  /\ UNCHANGED <<lock, calls, pc, frame>>
  /\ UNCHANGED <<fifoVars, treeVars>>

LruNext ==
  \/ \E key \in Keys, value \in Values : Set(key, value)
  \/ \E key \in Keys : Get(key)
  \/ \E key \in Keys : GetItem(key)
  \/ Clear

vars == <<lruVars, fifoVars, treeVars>>

\* The fifo cache and the tree, while the LRU cache is the one in use.
FifoIdle ==
  /\ fmaxsize = 0
  /\ queue = <<>>
  /\ fcache = <<>>
  /\ inserted = <<>>
  /\ hits = {}
  /\ flast = [args |-> None, kw |-> FALSE, ret |-> None, raised |-> "", hit |-> FALSE,
              evicted |-> {}, oldest |-> None, oldestWasHit |-> FALSE]

\* TreeControl.__init__ (lines 32-42): the root alone, with id 0, collapsed.
TreeFresh ==
  /\ node_id = 0
  /\ nodes = {0}
  /\ parent = [n \in {0} |-> None]
  /\ children = [n \in {0} |-> <<>>]
  /\ expanded = [n \in {0} |-> FALSE]
  /\ probe = [fn |-> "", node |-> None, result |-> None]  \* nothing read yet
  /\ cursor = 0              \* Reactive(NodeID(0)), line 47
  /\ cursor_line = 0         \* Reactive(0), line 48
  /\ show_cursor = FALSE     \* Reactive(False), line 49
  /\ posted = <<>>
  /\ tlast = [op |-> "init", arg |-> None, raised |-> "", moved |-> FALSE, from |-> None]

\* No widget chain and no message, while the caches or the bare tree are in use.
BusIdle ==
  /\ owner = <<>>
  /\ handlers = <<>>
  /\ msg = None
  /\ attempts = <<>>

Init == LruInit /\ FifoIdle /\ TreeFresh /\ BusIdle

Next == LruNext

Spec == Init /\ [][Next]_vars

\* --------------------------------------- several callers: steps of the methods
\* A locked section is cut where it writes self.root or self.cache, the two
\* fields get reads without the lock (lines 111 and 114).
Ghosts == <<lastUse, sinceClear>>

Begin == calls < MaxCalls /\ calls' = calls + 1

Enter(t, op, key, value, link, at) ==
  /\ frame' = [frame EXCEPT ![t] = [op |-> op, key |-> key, value |-> value,
                                    link |-> link]]
  /\ pc' = [pc EXCEPT ![t] = at]

Return(t, outcome) ==
  /\ frame' = [frame EXCEPT ![t] = IdleFrame]
  /\ pc' = [pc EXCEPT ![t] = "idle"]
  /\ last' = outcome

\* set, lines 67-76: take the lock, look the key up, link a new entry in.
SetEnter(t, key, value) ==
  /\ pc[t] = "idle"
  /\ lock = None
  /\ Begin
  /\ IF Contains(Store, key)
     THEN /\ Return(t, Outcome("set", Some(key), Some(value), None, "", {}))
          /\ UNCHANGED <<maxsize, cache, full, root, heap, lock>>
     ELSE /\ CanAllocate(Store, Held(frame))
          /\ Install(InsertNew(Store, Held(frame), key, value))
          /\ Enter(t, "set", Some(key), Some(value), None, "set_index")
          /\ lock' = Some(t)
          /\ UNCHANGED last
  /\ UNCHANGED Ghosts
  /\ UNCHANGED <<fifoVars, treeVars>>

\* set, line 77.
SetIndex(t) ==
  /\ pc[t] = "set_index"
  /\ Install(IndexNew(Store, frame[t].key[1]))
  /\ pc' = [pc EXCEPT ![t] = "set_evict"]
  /\ UNCHANGED <<lock, calls, frame, last, Ghosts>>
  /\ UNCHANGED <<fifoVars, treeVars>>

\* set, lines 79-85, and the release of the lock.
SetEvict(t) ==
  /\ pc[t] = "set_evict"
  /\ LET R == IF Overflow(Store) THEN Evict(Store)
              ELSE [store |-> Store, raised |-> "", evicted |-> {}]
     IN /\ Install(Collect(R.store, Held(frame)))
        /\ Return(t, Outcome("set", frame[t].key, frame[t].value, None,
                             R.raised, R.evicted))
  /\ lock' = None
  /\ UNCHANGED <<calls, Ghosts>>
  /\ UNCHANGED <<fifoVars, treeVars>>

\* get, lines 111-113: the index lookup, without the lock.
GetLookup(t, key) ==
  /\ pc[t] = "idle"
  /\ Begin
  /\ IF Contains(Store, key)
     THEN /\ Enter(t, "get", Some(key), None, Some(cache[key]), "get_test")
          /\ UNCHANGED last
     ELSE Return(t, Outcome("get", Some(key), None, None, "", {}))
  /\ UNCHANGED <<maxsize, cache, full, root, heap, lock, Ghosts>>
  /\ UNCHANGED <<fifoVars, treeVars>>

\* get, line 114: the identity test against self.root, without the lock.
GetTest(t) ==
  /\ pc[t] = "get_test"
  /\ IF frame[t].link[1] = root
     THEN /\ Return(t, Outcome("get", frame[t].key, None,
                               Some(heap[frame[t].link[1]][VALUE]), "", {}))
          /\ Install(Collect(Store, Held([frame EXCEPT ![t] = IdleFrame])))
     ELSE /\ pc' = [pc EXCEPT ![t] = "get_relink"]
          /\ UNCHANGED <<maxsize, cache, full, root, heap, frame, last>>
  /\ UNCHANGED <<lock, calls, Ghosts>>
  /\ UNCHANGED <<fifoVars, treeVars>>

\* get, lines 115-124: the relink under the lock, and the return.
GetRelink(t) ==
  /\ pc[t] = "get_relink"
  /\ lock = None
  /\ LET link == frame[t].link[1]
         R == Relink(Store, link)
     IN /\ Return(t, Outcome("get", frame[t].key, None,
                             IF R.raised = "" THEN Some(R.store.heap[link][VALUE])
                             ELSE None,
                             R.raised, {}))
        /\ Install(Collect(R.store, Held([frame EXCEPT ![t] = IdleFrame])))
  /\ UNCHANGED <<lock, calls, Ghosts>>
  /\ UNCHANGED <<fifoVars, treeVars>>

\* clear, lines 55-56.
ClearEnter(t) ==
  /\ pc[t] = "idle"
  /\ lock = None
  /\ Begin
  /\ Install(ClearIndex(Store))
  /\ Enter(t, "clear", None, None, None, "clear_root")
  /\ lock' = Some(t)
  /\ UNCHANGED <<last, Ghosts>>
  /\ UNCHANGED <<fifoVars, treeVars>>

\* clear, lines 57-58, and the release of the lock.
ClearRoot(t) ==
  /\ pc[t] = "clear_root"
  /\ CanAllocate(Store, Held(frame))
  /\ Install(Collect(ResetRoot(Store, Held(frame)), Held(frame)))
  /\ Return(t, Outcome("clear", None, None, None, "", {}))
  /\ lock' = None
  /\ UNCHANGED <<calls, Ghosts>>
  /\ UNCHANGED <<fifoVars, treeVars>>

ThreadsNext ==
  \/ \E t \in Threads, key \in Keys, value \in Values : SetEnter(t, key, value)
  \/ \E t \in Threads : SetIndex(t)
  \/ \E t \in Threads : SetEvict(t)
  \/ \E t \in Threads, key \in Keys : GetLookup(t, key)
  \/ \E t \in Threads : GetTest(t)
  \/ \E t \in Threads : GetRelink(t)
  \/ \E t \in Threads : ClearEnter(t)
  \/ \E t \in Threads : ClearRoot(t)

SpecThreads == Init /\ [][ThreadsNext]_vars

\* ------------------------------------------------------------- fifo_cache
Args == 1..NumArgs
FifoSizes == 0..MaxFifo

\* The function the module decorates (lines 177-179).
double(n) == n * n

FifoStore == [size |-> fmaxsize, queue |-> queue, cache |-> fcache]

\* Mutant of FifoMiss: the newest entry is dropped (pop instead of popleft).
FifoMissPopsRight(F, args) ==
  LET c1 == [a \in DOMAIN F.cache \cup {args} |->
               IF a = args THEN double(args) ELSE F.cache[a]]
      q1 == Append(F.queue, args)
  IN IF Len(q1) > F.size
     THEN [store |-> [F EXCEPT !.queue = SubSeq(q1, 1, Len(q1) - 1),
                               !.cache = [a \in DOMAIN c1 \ {q1[Len(q1)]} |-> c1[a]]],
           result |-> double(args), evicted |-> {q1[Len(q1)]}]
     ELSE [store |-> [F EXCEPT !.queue = q1, !.cache = c1],
           result |-> double(args), evicted |-> {}]

\* wrapper, lines 166-170: compute, memoize, queue, drop the head on overflow.
FifoMiss(F, args) ==
  LET c1 == [a \in DOMAIN F.cache \cup {args} |->
               IF a = args THEN double(args) ELSE F.cache[a]]
      q1 == Append(F.queue, args)
  IN IF Len(q1) > F.size
     THEN [store |-> [F EXCEPT !.queue = Tail(q1),
                               !.cache = [a \in DOMAIN c1 \ {Head(q1)} |-> c1[a]]],
           result |-> double(args), evicted |-> {Head(q1)}]
     ELSE [store |-> [F EXCEPT !.queue = q1, !.cache = c1],
           result |-> double(args), evicted |-> {}]

\* Mutant of FifoHit: a hit moves the arguments to the back of the queue.
FifoHitRequeues(F, args) ==
  [store |-> [F EXCEPT !.queue = Append(Without(F.queue, args), args)],
   result |-> F.cache[args], evicted |-> {}]

\* wrapper, lines 162-163: a memoized result is returned as it is.
FifoHit(F, args) ==
  [store |-> F, result |-> F.cache[args], evicted |-> {}]

FifoOutcome(args, kw, ret, raised, hit, evicted, oldest, wasHit) ==
  [args |-> args, kw |-> kw, ret |-> ret, raised |-> raised, hit |-> hit,
   evicted |-> evicted, oldest |-> oldest, oldestWasHit |-> wasHit]

\* fifo_cache(maxsize) applied to a function (lines 148-174): nothing memoized.
FifoInit ==
  /\ fmaxsize \in FifoSizes
  /\ queue = <<>>
  /\ fcache = <<>>
  /\ inserted = <<>>
  /\ hits = {}
  /\ flast = FifoOutcome(None, FALSE, None, "", FALSE, {}, None, FALSE)

\* One call of the wrapper (lines 161-170), with or without keyword arguments.
Call(args, kw) ==
  /\ IF args \in DOMAIN fcache
     THEN LET R == FifoHit(FifoStore, args)
          IN /\ queue' = R.store.queue
             /\ fcache' = R.store.cache
             /\ flast' = FifoOutcome(Some(args), kw, Some(R.result), "", TRUE, {}, None, FALSE)
             /\ hits' = hits \cup {args}
             /\ UNCHANGED inserted
     ELSE IF kw
     THEN /\ flast' = FifoOutcome(Some(args), kw, None, "AssertionError", FALSE, {}, None, FALSE)
          /\ UNCHANGED <<queue, fcache, inserted, hits>>
     ELSE LET R == FifoMiss(FifoStore, args)
              was == Append(inserted, args)
          IN /\ queue' = R.store.queue
             /\ fcache' = R.store.cache
             /\ inserted' = SelectSeq(was, LAMBDA a : a \notin R.evicted)
             /\ hits' = hits \ R.evicted
             /\ flast' = FifoOutcome(Some(args), kw, Some(R.result), "", FALSE,
                                     R.evicted, Some(Head(was)), Head(was) \in hits)
  /\ UNCHANGED <<fmaxsize, lruVars, treeVars>>

\* The LRU cache, while the fifo cache or the tree is the one in use.
LruIdle ==
  /\ maxsize = 1
  /\ cache = <<>>
  /\ full = FALSE
  /\ root = 1
  /\ heap = [i \in Ids |-> <<>>]
  /\ lock = None
  /\ calls = 0
  /\ pc = [t \in Threads |-> "idle"]
  /\ frame = [t \in Threads |-> IdleFrame]
  /\ last = Outcome("init", None, None, None, "", {})
  /\ lastUse = <<>>
  /\ sinceClear = NoWindow

FifoNext == \E args \in Args, kw \in BOOLEAN : Call(args, kw)

FifoSpecInit == LruIdle /\ FifoInit /\ TreeFresh /\ BusIdle

SpecFifo == FifoSpecInit /\ [][FifoNext]_vars

\* ------------------------------------------------- TreeNode and TreeControl
\* Index of the first element of seq that is node n (0 when there is none):
\* where `for node in iter_siblings: if node is self` stops.
FirstAt(seq, n) ==
  IF \E i \in 1..Len(seq) : seq[i] = n
  THEN CHOOSE i \in 1..Len(seq) : seq[i] = n /\ \A j \in 1..(i - 1) : seq[j] # n
  ELSE 0

\* TreeNode.next_sibling (lines 117-129).
next_sibling(n) ==
  IF parent[n] = None THEN None
  ELSE LET siblings == children[parent[n][1]]
           i == FirstAt(siblings, n)
       IN IF i = 0 \/ i = Len(siblings) THEN None ELSE Some(siblings[i + 1])

\* TreeNode.previous_sibling (lines 131-143).
previous_sibling(n) ==
  IF parent[n] = None THEN None
  ELSE LET siblings == children[parent[n][1]]
           i == FirstAt(siblings, n)
       IN IF i = 0 \/ i = 1 THEN None ELSE Some(siblings[i - 1])

\* The loop of next_node (lines 86-94): up the ancestors to one with a
\* next sibling.
RECURSIVE Climb(_)
Climb(node) ==
  IF parent[node] = None THEN None
  ELSE LET sibling == next_sibling(parent[node][1])
       IN IF sibling # None THEN sibling ELSE Climb(parent[node][1])

\* Mutant of next_node: the walk up the ancestors is missing.
next_node_without_climb(n) ==
  IF expanded[n] /\ children[n] # <<>> THEN Some(children[n][1])
  ELSE next_sibling(n)

\* TreeNode.next_node (lines 74-94).
next_node(n) ==
  IF expanded[n] /\ children[n] # <<>> THEN Some(children[n][1])
  ELSE LET sibling == next_sibling(n)
       IN IF sibling # None THEN sibling ELSE Climb(n)

\* Mutant of last_sibling: a collapsed node's children count as visible.
RECURSIVE last_sibling_ignoring_expanded(_)
last_sibling_ignoring_expanded(node) ==
  IF children[node] # <<>>
  THEN last_sibling_ignoring_expanded(children[node][Len(children[node])])
  ELSE node

\* The helper inside previous_node (lines 103-109), both branches as written.
RECURSIVE last_sibling(_)
last_sibling(node) ==
  IF expanded[node] /\ children[node] # <<>>
  THEN last_sibling(children[node][Len(children[node])])
  ELSE IF children[node] # <<>> /\ expanded[node]
       THEN children[node][Len(children[node])]
       ELSE node

\* TreeNode.previous_node (lines 96-115).
previous_node(n) ==
  LET sibling == previous_sibling(n)
  IN IF sibling # None THEN Some(last_sibling(sibling[1]))
     ELSE IF parent[n] = None THEN None
     ELSE parent[n]

NoProbe == [fn |-> "", node |-> None, result |-> None]

\* TreeControl.add (lines 58-74): a new last child of node p, with the next id.
Add(p) ==
  /\ probe = NoProbe
  /\ p \in nodes
  /\ node_id + 1 < MaxNodes
  /\ LET id == node_id + 1
     IN /\ node_id' = id
        /\ nodes' = nodes \cup {id}
        /\ parent' = [n \in nodes \cup {id} |-> IF n = id THEN Some(p) ELSE parent[n]]
        /\ children' = [n \in nodes \cup {id} |->
                          IF n = id THEN <<>>
                          ELSE IF n = p THEN Append(children[p], id)
                          ELSE children[n]]
        /\ expanded' = [n \in nodes \cup {id} |-> IF n = id THEN FALSE ELSE expanded[n]]
  /\ UNCHANGED <<probe, ctlVars, busVars, lruVars, fifoVars>>

\* TreeNode.expand (lines 145-148).
Expand(n, b) ==
  /\ probe = NoProbe
  /\ n \in nodes
  /\ expanded' = [expanded EXCEPT ![n] = b]
  /\ UNCHANGED <<node_id, nodes, parent, children, probe, ctlVars, busVars, lruVars, fifoVars>>

\* TreeNode.toggle (lines 150-151).
Toggle(n) ==
  /\ probe = NoProbe
  /\ n \in nodes
  /\ expanded' = [expanded EXCEPT ![n] = ~expanded[n]]
  /\ UNCHANGED <<node_id, nodes, parent, children, probe, ctlVars, busVars, lruVars, fifoVars>>

\* A caller reads node.next_node, as cursor_down does (line 147).
ReadNext(n) ==
  /\ probe = NoProbe
  /\ n \in nodes
  /\ probe' = [fn |-> "next_node", node |-> Some(n), result |-> next_node(n)]
  /\ UNCHANGED <<node_id, nodes, parent, children, expanded, ctlVars, busVars, lruVars, fifoVars>>

\* A caller reads node.previous_node, as cursor_up does (line 157).
ReadPrevious(n) ==
  /\ probe = NoProbe
  /\ n \in nodes
  /\ probe' = [fn |-> "previous_node", node |-> Some(n), result |-> previous_node(n)]
  /\ UNCHANGED <<node_id, nodes, parent, children, expanded, ctlVars, busVars, lruVars, fifoVars>>

\* The caller returns and its local holding the node is gone.
Done ==
  /\ probe # NoProbe
  /\ probe' = NoProbe
  /\ UNCHANGED <<node_id, nodes, parent, children, expanded, ctlVars, busVars, lruVars, fifoVars>>

NodeIds == 0..(MaxNodes - 1)

TreeNext ==
  \/ \E p \in NodeIds : Add(p)
  \/ \E n \in NodeIds, b \in BOOLEAN : Expand(n, b)
  \/ \E n \in NodeIds : Toggle(n)
  \/ \E n \in NodeIds : ReadNext(n)
  \/ \E n \in NodeIds : ReadPrevious(n)
  \/ Done

TreeSpecInit == LruIdle /\ FifoIdle /\ TreeFresh /\ BusIdle

SpecTree == TreeSpecInit /\ [][TreeNext]_vars

\* ------------------------------------------------ TreeControl and its cursor
CtlNodeIds == 0..(MaxCtlNodes - 1)
Lines == (0 - MaxLine)..MaxLine

\* The names bound in the globals of _tree_control.py when a method runs
\* (imports of lines 4-18, the class of line 21); events is imported only
\* under __main__ (line 165) and is used in annotations alone.
ModuleNames ==
  {"Generic", "Iterator", "NewType", "TypeVar", "rich", "RenderableType", "Style",
   "Text", "TextType", "Tree", "PaddingDimensions", "Reactive", "MessageTarget",
   "Widget", "Message", "CursorMove", "TreeNode", "NodeID", "NodeDataType",
   "TreeControl"}

\* Evaluating a global name in a method body: NameError when it is not bound.
Resolves(name) == name \in ModuleNames

\* The three reactive attributes of the control.
Ctl == [cursor |-> cursor, cursor_line |-> cursor_line, show_cursor |-> show_cursor]

Did(op, arg, raised, moved, from) ==
  [op |-> op, arg |-> arg, raised |-> raised, moved |-> moved, from |-> from]

\* The loop of find_cursor (lines 87-100): stack holds the iterators, each as
\* the nodes it has still to yield; the last element is the top.
RECURSIVE FindLoop(_, _, _)
FindLoop(stack, line, id) ==
  IF stack = <<>> THEN None
  ELSE LET iter_children == stack[Len(stack)]
           rest == SubSeq(stack, 1, Len(stack) - 1)
       IN IF iter_children = <<>> THEN FindLoop(rest, line, id)
          ELSE LET node == Head(iter_children)
                   pushed == Append(rest, Tail(iter_children))
               IN IF node = id THEN Some(line)
                  ELSE FindLoop(IF children[node] # <<>> /\ expanded[node]
                                THEN Append(pushed, children[node])
                                ELSE pushed,
                                line + 1, id)

\* Mutant of find_cursor: the count starts at one.
find_cursor_from_one(id) == FindLoop(<< <<0>> >>, 1, id)

\* TreeControl.find_cursor (lines 76-100), for self.cursor = id.
find_cursor(id) == FindLoop(<< <<0>> >>, 0, id)

\* Mutant of cursor_down: a hidden cursor is revealed and moved in one call.
cursor_down_moving_at_once(C) ==
  LET nx == next_node(C.cursor)
  IN IF nx # None
     THEN [cursor |-> nx[1], cursor_line |-> C.cursor_line + 1, show_cursor |-> TRUE]
     ELSE [C EXCEPT !.show_cursor = TRUE]

\* TreeControl.cursor_down (lines 142-150), on the three attributes.
cursor_down(C) ==
  IF ~C.show_cursor THEN [C EXCEPT !.show_cursor = TRUE]
  ELSE LET nx == next_node(C.cursor)
       IN IF nx # None
          THEN [C EXCEPT !.cursor_line = C.cursor_line + 1, !.cursor = nx[1]]
          ELSE C

\* Mutant of cursor_up: the line is left as it was.
cursor_up_keeping_line(C) ==
  IF ~C.show_cursor THEN [C EXCEPT !.show_cursor = TRUE]
  ELSE LET pv == previous_node(C.cursor)
       IN IF pv # None THEN [C EXCEPT !.cursor = pv[1]] ELSE C

\* TreeControl.cursor_up (lines 152-160), on the three attributes.
cursor_up(C) ==
  IF ~C.show_cursor THEN [C EXCEPT !.show_cursor = TRUE]
  ELSE LET pv == previous_node(C.cursor)
       IN IF pv # None
          THEN [C EXCEPT !.cursor_line = C.cursor_line - 1, !.cursor = pv[1]]
          ELSE C

\* The three attributes take the values of C.
Assign(C) ==
  /\ cursor' = C.cursor
  /\ cursor_line' = C.cursor_line
  /\ show_cursor' = C.show_cursor

\* Mutant of AddTo: the new child is put first among its parent's children.
AddToPrepending(id) ==
  /\ probe = NoProbe
  /\ IF id \notin nodes
     THEN /\ tlast' = Did("add", Some(id), "KeyError", FALSE, None)
          /\ UNCHANGED <<node_id, nodes, parent, children, expanded>>
     ELSE /\ node_id + 1 < MaxCtlNodes
          /\ LET new == node_id + 1
             IN /\ node_id' = new
                /\ nodes' = nodes \cup {new}
                /\ parent' = [n \in nodes \cup {new} |-> IF n = new THEN Some(id) ELSE parent[n]]
                /\ children' = [n \in nodes \cup {new} |->
                                  IF n = new THEN <<>>
                                  ELSE IF n = id THEN <<new>> \o children[id]
                                  ELSE children[n]]
                /\ expanded' = [n \in nodes \cup {new} |-> IF n = new THEN FALSE ELSE expanded[n]]
          /\ tlast' = Did("add", Some(id), "", FALSE, None)
  /\ UNCHANGED <<probe, cursor, cursor_line, show_cursor, posted, busVars, lruVars, fifoVars>>

\* TreeControl.add (lines 58-74) called with any id: the lookup of line 64
\* raises KeyError before anything is changed.
AddTo(id) ==
  /\ probe = NoProbe
  /\ IF id \notin nodes
     THEN /\ tlast' = Did("add", Some(id), "KeyError", FALSE, None)
          /\ UNCHANGED <<node_id, nodes, parent, children, expanded>>
     ELSE /\ node_id + 1 < MaxCtlNodes
          /\ LET new == node_id + 1
             IN /\ node_id' = new
                /\ nodes' = nodes \cup {new}
                /\ parent' = [n \in nodes \cup {new} |-> IF n = new THEN Some(id) ELSE parent[n]]
                /\ children' = [n \in nodes \cup {new} |->
                                  IF n = new THEN <<>>
                                  ELSE IF n = id THEN Append(children[id], new)
                                  ELSE children[n]]
                /\ expanded' = [n \in nodes \cup {new} |-> IF n = new THEN FALSE ELSE expanded[n]]
          /\ tlast' = Did("add", Some(id), "", FALSE, None)
  /\ UNCHANGED <<probe, cursor, cursor_line, show_cursor, posted, busVars, lruVars, fifoVars>>

\* Mutant of NodeExpand: the node's children are expanded or collapsed with it.
NodeExpandWithChildren(n, b) ==
  /\ probe = NoProbe
  /\ n \in nodes
  /\ expanded' = [m \in nodes |-> IF m = n \/ parent[m] = Some(n) THEN b ELSE expanded[m]]
  /\ tlast' = Did("expand", None, "", b, None)
  /\ UNCHANGED <<node_id, nodes, parent, children, probe, cursor, cursor_line,
                 show_cursor, posted, busVars, lruVars, fifoVars>>

\* TreeNode.expand (lines 145-148) on a node of the control; tlast.moved
\* records the flag it was given (the node shows in the change of expanded).
NodeExpand(n, b) ==
  /\ probe = NoProbe
  /\ n \in nodes
  /\ expanded' = [expanded EXCEPT ![n] = b]
  /\ tlast' = Did("expand", None, "", b, None)
  /\ UNCHANGED <<node_id, nodes, parent, children, probe, cursor, cursor_line,
                 show_cursor, posted, busVars, lruVars, fifoVars>>

\* TreeNode.toggle (lines 150-151) on a node of the control.
NodeToggle(n) ==
  /\ probe = NoProbe
  /\ n \in nodes
  /\ expanded' = [expanded EXCEPT ![n] = ~expanded[n]]
  /\ tlast' = Did("toggle", None, "", ~expanded[n], None)
  /\ UNCHANGED <<node_id, nodes, parent, children, probe, cursor, cursor_line,
                 show_cursor, posted, busVars, lruVars, fifoVars>>

\* A call of cursor_down: self.nodes[self.cursor] raises KeyError (line 146)
\* when the cursor is not in the index.
CursorDown ==
  /\ probe = NoProbe
  /\ IF show_cursor /\ cursor \notin nodes
     THEN /\ tlast' = Did("cursor_down", None, "KeyError", FALSE, None)
          /\ UNCHANGED <<cursor, cursor_line, show_cursor>>
     ELSE LET C == cursor_down(Ctl)
              moved == C.cursor_line # cursor_line
          IN /\ C.cursor_line \in Lines
             /\ Assign(C)
             /\ tlast' = Did("cursor_down", None, "", moved,
                             IF moved THEN Some(<<cursor, cursor_line>>) ELSE None)
  /\ UNCHANGED <<node_id, nodes, parent, children, expanded, probe, posted,
                 busVars, lruVars, fifoVars>>

\* A call of cursor_up; tlast.from carries the place a cursor_down just
\* before it moved away from.
CursorUp ==
  /\ probe = NoProbe
  /\ IF show_cursor /\ cursor \notin nodes
     THEN /\ tlast' = Did("cursor_up", None, "KeyError", FALSE, None)
          /\ UNCHANGED <<cursor, cursor_line, show_cursor>>
     ELSE LET C == cursor_up(Ctl)
              moved == C.cursor_line # cursor_line
          IN /\ C.cursor_line \in Lines
             /\ Assign(C)
             /\ tlast' = Did("cursor_up", None, "", moved,
                             IF moved /\ tlast.op = "cursor_down" /\ tlast.moved
                             THEN tlast.from ELSE None)
  /\ UNCHANGED <<node_id, nodes, parent, children, expanded, probe, posted,
                 busVars, lruVars, fifoVars>>

\* The message TreeClick(self, node) (_tree_click.py lines 9-12): its class
\* is declared with bubble=True.
TreeClick(node) == [type |-> "TreeClick", node |-> node, bubble |-> TRUE]

\* self.find_cursor() or 0 (line 119).
OrZero(found) == IF found = None THEN 0 ELSE found[1]

\* Mutant of ClickLabel: the cursor is hidden before the node is looked up.
ClickLabelHidingFirst(id) ==
  /\ probe = NoProbe
  /\ IF id \notin nodes
     THEN /\ tlast' = Did("click", Some(id), "KeyError", FALSE, None)
          /\ show_cursor' = FALSE
          /\ UNCHANGED <<cursor, cursor_line, posted>>
     ELSE /\ Assign([cursor |-> id, cursor_line |-> OrZero(find_cursor(id)),
                     show_cursor |-> FALSE])
          /\ IF Resolves("TreeClick")
             THEN /\ posted' = Append(posted, TreeClick(id))
                  /\ tlast' = Did("click", Some(id), "", FALSE, None)
             ELSE /\ posted' = posted
                  /\ tlast' = Did("click", Some(id), "NameError", FALSE, None)
  /\ UNCHANGED <<node_id, nodes, parent, children, expanded, probe,
                 busVars, lruVars, fifoVars>>

\* TreeControl.action_click_label (lines 116-121): the lookup of line 117
\* raises KeyError for an id that is not in the index; lines 118-120 set the
\* three attributes; line 121 evaluates the name TreeClick.
ClickLabel(id) ==
  /\ probe = NoProbe
  /\ IF id \notin nodes
     THEN /\ tlast' = Did("click", Some(id), "KeyError", FALSE, None)
          /\ UNCHANGED <<cursor, cursor_line, show_cursor, posted>>
     ELSE /\ Assign([cursor |-> id, cursor_line |-> OrZero(find_cursor(id)),
                     show_cursor |-> FALSE])
          /\ IF Resolves("TreeClick")
             THEN /\ posted' = Append(posted, TreeClick(id))
                  /\ tlast' = Did("click", Some(id), "", FALSE, None)
             ELSE /\ posted' = posted
                  /\ tlast' = Did("click", Some(id), "NameError", FALSE, None)
  /\ UNCHANGED <<node_id, nodes, parent, children, expanded, probe,
                 busVars, lruVars, fifoVars>>

\* A caller reads find_cursor(), as action_click_label does (line 119).
FindCursor ==
  /\ probe = NoProbe
  /\ probe' = [fn |-> "find_cursor", node |-> Some(cursor), result |-> find_cursor(cursor)]
  /\ UNCHANGED <<node_id, nodes, parent, children, expanded, ctlVars, busVars,
                 lruVars, fifoVars>>

ControlNext ==
  \/ \E id \in CtlNodeIds : AddTo(id)
  \/ \E n \in CtlNodeIds, b \in BOOLEAN : NodeExpand(n, b)
  \/ \E n \in CtlNodeIds : NodeToggle(n)
  \/ CursorDown
  \/ CursorUp
  \/ \E id \in CtlNodeIds : ClickLabel(id)
  \/ FindCursor
  \/ Done

\* The same calls without the click.
CursorNext ==
  \/ \E id \in CtlNodeIds : AddTo(id)
  \/ \E n \in CtlNodeIds, b \in BOOLEAN : NodeExpand(n, b)
  \/ \E n \in CtlNodeIds : NodeToggle(n)
  \/ CursorDown
  \/ CursorUp
  \/ FindCursor
  \/ Done

ControlInit == LruIdle /\ FifoIdle /\ TreeFresh /\ BusIdle

SpecCursor == ControlInit /\ [][CursorNext]_vars

\* ----------------------------------------------- messages and their bubbling
\* The widgets above the control, 1 being the root of the ownership chain and
\* each other widget owned by the one before it; the control is owned by the
\* last of them.
Widgets == 1..ChainLen
TreeWidget == ChainLen + 1

\* What a widget's handler for the message in flight does.
Behaviours == {"none", "handle", "stop"}

\* The keys of a key event: those the control names a handler for (key_down,
\* key_up, key_enter, lines 129-140) and one it has no handler for.
KeyNames == {"down", "up", "enter", "tab"}

NewMessage(type, key, node, bubble, at) ==
  [type |-> type, key |-> key, node |-> node, bubble |-> bubble, stopped |-> FALSE,
   at |-> Some(at), sender |-> at]

Idle == msg = None

\* The ownership chain with the control at its end, nothing in flight.
BusInit ==
  /\ owner = [w \in Widgets \cup {TreeWidget} |-> IF w = 1 THEN None ELSE Some(w - 1)]
  /\ handlers = [w \in Widgets |-> "none"]
  /\ msg = None
  /\ attempts = <<>>

\* The dispatcher takes up the next message: one the control has posted, if
\* there is one, else a message a widget emits now.
Emit(w, bubble, h) ==
  /\ Idle
  /\ IF posted # <<>>
     THEN /\ msg' = Some(NewMessage(Head(posted).type, "", Some(Head(posted).node),
                                    Head(posted).bubble, TreeWidget))
          /\ posted' = Tail(posted)
     ELSE /\ msg' = Some(NewMessage("Message", "", None, bubble, w))
          /\ posted' = posted
  /\ handlers' = h
  /\ attempts' = <<>>
  /\ UNCHANGED <<node_id, nodes, parent, children, expanded, probe, cursor,
                 cursor_line, show_cursor, tlast, owner, lruVars, fifoVars>>

\* A key event arrives at the control.
Press(key, h) ==
  /\ Idle
  /\ posted = <<>>
  /\ msg' = Some(NewMessage("Key", key, None, TRUE, TreeWidget))
  /\ handlers' = h
  /\ attempts' = <<>>
  /\ UNCHANGED <<node_id, nodes, parent, children, expanded, probe, ctlVars,
                 owner, lruVars, fifoVars>>

\* TreeControl.key_down (lines 129-131): the attributes, and event.stop().
key_down(C) == [ctl |-> cursor_down(C), stopped |-> TRUE, raised |-> "", posts |-> <<>>]

\* TreeControl.key_up (lines 133-135).
key_up(C) == [ctl |-> cursor_up(C), stopped |-> TRUE, raised |-> "", posts |-> <<>>]

\* Mutant of key_enter: the event is not stopped.
key_enter_without_stop(C) ==
  IF C.cursor \notin nodes
  THEN [ctl |-> C, stopped |-> FALSE, raised |-> "KeyError", posts |-> <<>>]
  ELSE IF Resolves("TreeClick")
  THEN [ctl |-> C, stopped |-> FALSE, raised |-> "", posts |-> <<TreeClick(C.cursor)>>]
  ELSE [ctl |-> C, stopped |-> FALSE, raised |-> "NameError", posts |-> <<>>]

\* TreeControl.key_enter (lines 137-140): the lookup of line 138, event.stop()
\* of line 139, then line 140 evaluates the name TreeClick.
key_enter(C) ==
  IF C.cursor \notin nodes
  THEN [ctl |-> C, stopped |-> FALSE, raised |-> "KeyError", posts |-> <<>>]
  ELSE IF Resolves("TreeClick")
  THEN [ctl |-> C, stopped |-> TRUE, raised |-> "", posts |-> <<TreeClick(C.cursor)>>]
  ELSE [ctl |-> C, stopped |-> TRUE, raised |-> "NameError", posts |-> <<>>]

\* TreeControl.on_key (lines 126-127): dispatch_key runs the handler named
\* for the key, if the control has one.
on_key(key, C) ==
  IF key = "down" THEN key_down(C)
  ELSE IF key = "up" THEN key_up(C)
  ELSE IF key = "enter" THEN key_enter(C)
  ELSE [ctl |-> C, stopped |-> FALSE, raised |-> "", posts |-> <<>>]

\* Where the message goes after the attempt at widget w.
Onward(m, w, stopped) ==
  IF stopped \/ ~m.bubble \/ owner[w] = None THEN None ELSE owner[w]

\* One step of the dispatch: the message is attempted at the widget it has
\* reached, whose handler may stop it, and then moves to the owner or ends.
Attempt ==
  /\ msg # None
  /\ msg[1].at # None
  /\ LET m == msg[1]
         w == m.at[1]
     IN /\ attempts' = Append(attempts, w)
        /\ IF w = TreeWidget /\ m.type = "Key"
           THEN LET r == on_key(m.key, Ctl)
                IN /\ Assign(r.ctl)
                   /\ posted' = posted \o r.posts
                   /\ tlast' = Did("key_" \o m.key, None, r.raised, r.ctl # Ctl, None)
                   /\ msg' = Some([m EXCEPT !.stopped = r.stopped,
                                            !.at = Onward(m, w, r.stopped)])
           ELSE LET stopped == w # TreeWidget /\ handlers[w] = "stop"
                IN /\ msg' = Some([m EXCEPT !.stopped = stopped,
                                            !.at = Onward(m, w, stopped)])
                   /\ UNCHANGED ctlVars
  /\ UNCHANGED <<node_id, nodes, parent, children, expanded, probe, owner,
                 handlers, lruVars, fifoVars>>

\* The dispatch is over and the message is dropped (it is not used again).
Finish ==
  /\ msg # None
  /\ msg[1].at = None
  /\ msg' = None
  /\ attempts' = <<>>
  /\ handlers' = [w \in Widgets |-> "none"]
  /\ UNCHANGED <<node_id, nodes, parent, children, expanded, probe, ctlVars,
                 owner, lruVars, fifoVars>>

BubbleNext ==
  \/ \E w \in Widgets, bubble \in BOOLEAN, h \in [Widgets -> Behaviours] : Emit(w, bubble, h)
  \/ \E key \in KeyNames, h \in [Widgets -> Behaviours] : Press(key, h)
  \/ Attempt
  \/ Finish

BubbleInit == LruIdle /\ FifoIdle /\ TreeFresh /\ BusInit

SpecBubble == BubbleInit /\ [][BubbleNext]_vars

SpecControl == ControlInit /\ [][ControlNext]_vars

\* ------------------------------------------------ shape of index and list
\* The entries on the ring, walking NEXT from the root.
RECURSIVE RingFrom(_, _, _)
RingFrom(h, e, seen) ==
  IF e \in seen \/ h[e] = <<>> THEN seen ELSE RingFrom(h, h[e][NEXT], seen \cup {e})

Ring == RingFrom(heap, root, {})

IndexMatchesList ==
  /\ \A k \in DOMAIN cache :
       /\ cache[k] \in Ring
       /\ Cardinality({e \in Ring : heap[e][KEY] = k}) = 1
       /\ heap[cache[k]][KEY] = k
  /\ \A e \in Ring : heap[e][KEY] \in DOMAIN cache
  /\ \A e \in Ring : /\ heap[e][NEXT] \in Ring
                     /\ heap[e][PREV] \in Ring
                     /\ heap[heap[e][NEXT]][PREV] = e
                     /\ heap[heap[e][PREV]][NEXT] = e

RootIsMostRecent ==
  DOMAIN cache # {} => /\ heap[root] # <<>>
                       /\ lastUse # <<>>
                       /\ heap[root][KEY] = lastUse[Len(lastUse)]

\* ------------------------------------------------------------------ claims
\* C1: set(k, v) followed by get(k) returns v, also when k was already in
\* the cache with another value.
C1_SetThenGet ==
  [][(/\ maxsize >= 1
      /\ last.op = "set"
      /\ last'.op = "get"
      /\ last'.key = last.key) => last'.ret = last.arg]_vars

\* C2: on a cache of capacity >= 1 a set that evicts evicts exactly the key
\* whose last access (a get that found it, or any set of it) is oldest.
C2_EvictsOldest ==
  [][(/\ maxsize >= 1
      /\ last'.op = "set"
      /\ last'.evicted # {}) => /\ lastUse # <<>>
                                /\ last'.evicted = {Head(lastUse)}]_vars

\* C3: after every operation that returns, len() is at most maxsize.
C3_LenAtMostMaxsize ==
  (maxsize >= 0 /\ last.raised = "") => CacheLen(Store) <= maxsize

\* C4: after every operation the index and the ring agree, prev and next are
\* mutual inverses, and the root is the most recently used entry.
C4_IndexListConsistent ==
  maxsize >= 1 => IndexMatchesList /\ RootIsMostRecent

\* C5: with several threads calling get, set and clear, whenever no thread is
\* inside a locked section the index and the ring agree, the ring holds at
\* most maxsize entries, and no call has failed with KeyError or IndexError.
C5_ThreadSafe ==
  (maxsize >= 1 /\ lock = None) =>
    /\ IndexMatchesList
    /\ Cardinality(Ring) <= maxsize
    /\ last.raised = ""

\* C6: no cache with maxsize <= 0 exists, so no set ever runs on one.
C6_NoSetOnNonPositive ==
  ~(maxsize <= 0 /\ last.op = "set")

\* C7: after clear() the cache is empty and as after construction: len() is
\* 0, no key is contained, and the next maxsize sets of distinct keys evict
\* nothing.
C7_ClearResets ==
  sinceClear.cleared =>
    /\ last.op = "clear" => /\ CacheLen(Store) = 0
                            /\ \A k \in Keys : ~Contains(Store, k)
                            /\ ~full
                            /\ heap[root] = <<>>
    /\ sinceClear.evicted = {}
    /\ DOMAIN cache = sinceClear.sets
    /\ (last.op = "get" /\ last.key[1] \notin sinceClear.sets) => last.ret = None

C7_Witness ==
  /\ sinceClear.cleared
  /\ sinceClear.wasFull
  /\ maxsize >= 2
  /\ Cardinality(sinceClear.sets) = maxsize
  /\ last.op = "set"

\* The parts of C4 the code keeps on a cache of capacity >= 1.
StructureKept == maxsize >= 1 => IndexMatchesList
AllocationNeverBlocks == CanAllocate(Store, {}) /\ CanAllocate(ClearIndex(Store), {})

\* C8: the wrapped function never memoizes more than maxsize argument tuples,
\* the memo's keys are the queue's contents with each queued once, an
\* overflowing miss drops the entry inserted earliest, and a hit changes
\* neither the memo nor the order of eviction.
C8_FifoDiscipline ==
  /\ Cardinality(DOMAIN fcache) <= fmaxsize
  /\ {queue[i] : i \in 1..Len(queue)} = DOMAIN fcache
  /\ \A i, j \in 1..Len(queue) : queue[i] = queue[j] => i = j
  /\ flast.evicted # {} => flast.evicted = {flast.oldest[1]}
  /\ queue = inserted
  /\ \A a \in DOMAIN fcache : fcache[a] = double(a)
  /\ flast.ret # None => flast.ret = Some(double(flast.args[1]))

\* An overflowing miss after a hit on the entry inserted earliest: the hit
\* did not save that entry.
C8_Witness ==
  /\ fmaxsize >= 2
  /\ flast.evicted # {}
  /\ flast.hit = FALSE
  /\ Len(queue) = fmaxsize
  /\ flast.oldest[1] \notin DOMAIN fcache
  /\ flast.oldestWasHit

\* ------------------------------------------------ the tree in document order
\* Depth-first order of the subtree of n; a collapsed node's children are
\* left out when hidden is FALSE.
RECURSIVE Pre(_, _)
RECURSIVE PreAll(_, _)
Pre(n, hidden) ==
  <<n>> \o (IF hidden \/ expanded[n] THEN PreAll(children[n], hidden) ELSE <<>>)
PreAll(seq, hidden) ==
  IF seq = <<>> THEN <<>> ELSE Pre(Head(seq), hidden) \o PreAll(Tail(seq), hidden)

RECURSIVE Ancestors(_)
Ancestors(n) ==
  IF parent[n] = None THEN {} ELSE {parent[n][1]} \cup Ancestors(parent[n][1])

Shown(n) == \A a \in Ancestors(n) : expanded[a]

\* The nodes next_node reaches from n, in the order it reaches them.
RECURSIVE Walk(_, _)
Walk(n, fuel) ==
  IF fuel = 0 \/ next_node(n) = None THEN <<>>
  ELSE <<next_node(n)[1]>> \o Walk(next_node(n)[1], fuel - 1)

\* Position of n among its parent's children.
Place(n) == CHOOSE i \in 1..Len(children[parent[n][1]]) : children[parent[n][1]][i] = n

\* The nearest of n and its ancestors that has a later sibling.
RECURSIVE NearestWithLater(_)
NearestWithLater(n) ==
  IF parent[n] = None THEN None
  ELSE IF Place(n) < Len(children[parent[n][1]]) THEN Some(n)
  ELSE NearestWithLater(parent[n][1])

\* The rule of the specification for next_node.
NextRule(n) ==
  IF expanded[n] /\ children[n] # <<>> THEN Some(children[n][1])
  ELSE LET m == NearestWithLater(n)
       IN IF m = None THEN None
          ELSE Some(children[parent[m[1]][1]][Place(m[1]) + 1])

\* The rule of the specification for previous_node: the last node of the
\* previous sibling's visible subtree, else the parent.
PreviousRule(n) ==
  IF parent[n] = None THEN None
  ELSE IF Place(n) > 1
  THEN LET shown == Pre(children[parent[n][1]][Place(n) - 1], FALSE)
       IN Some(shown[Len(shown)])
  ELSE parent[n]

\* root with children [X, Y], X with children [X1, X2]: ids 0; 1, 2; 3, 4.
ExampleTree ==
  /\ nodes = 0..4
  /\ children[0] = <<1, 2>>
  /\ children[1] = <<3, 4>>

AllExpanded == \A n \in nodes : expanded[n]

\* C9: next_node follows the rule of the specification, and from the root it
\* visits exactly the nodes whose ancestors are all expanded, once each, in
\* depth-first document order, then returns none.
C9_NextNodeOrder ==
  /\ \A n \in nodes : next_node(n) = NextRule(n)
  /\ <<0>> \o Walk(0, MaxNodes + 1) = SelectSeq(Pre(0, TRUE), Shown)
  /\ probe.fn = "next_node" => probe.result = NextRule(probe.node[1])
  /\ (ExampleTree /\ AllExpanded) => Walk(0, MaxNodes + 1) = <<1, 3, 4, 2>>

C9_Witness ==
  /\ ExampleTree
  /\ AllExpanded
  /\ probe = [fn |-> "next_node", node |-> Some(4), result |-> Some(2)]

\* C10: previous_node follows the rule of the specification for every node,
\* tree and expansion state; in the example tree previous_node(Y) is X2 and
\* previous_node(X1) is X, and previous_node(Y) is X when X is collapsed.
C10_PreviousNodeRule ==
  /\ \A n \in nodes : previous_node(n) = PreviousRule(n)
  /\ probe.fn = "previous_node" => probe.result = PreviousRule(probe.node[1])
  /\ (ExampleTree /\ AllExpanded) => /\ previous_node(2) = Some(4)
                                     /\ previous_node(3) = Some(1)
  /\ (ExampleTree /\ ~expanded[1]) => previous_node(2) = Some(1)

C10_Witness ==
  /\ ExampleTree
  /\ ~expanded[1]
  /\ probe = [fn |-> "previous_node", node |-> Some(2), result |-> Some(1)]

\* ------------------------------------------------------ the control's cursor
\* The step is a call of one of the named methods.
Called(ops) == probe' = probe /\ tlast'.op \in ops

\* The line the control holds is the cursor's place in the visible order.
CursorLineAgrees ==
  (show_cursor /\ Shown(cursor)) => find_cursor(cursor) = Some(cursor_line)

\* C11: expand, collapse, toggle, cursor_down and cursor_up keep cursor_line
\* equal to find_cursor() whenever the cursor is shown and its node is visible.
C11_CursorLineConsistent ==
  [][(CursorLineAgrees /\ Called({"expand", "toggle", "cursor_down", "cursor_up"}))
       => CursorLineAgrees']_vars

\* The nodes k applications of next_node reach from the root, k = 0, 1, ...
VisibleOrder == <<0>> \o Walk(0, Cardinality(nodes))

\* Index of id in seq, counting from 0 (none when it is not there).
IndexIn(seq, id) ==
  LET at == {k \in 1..Len(seq) : seq[k] = id}
  IN IF at = {} THEN None ELSE Some((CHOOSE k \in at : TRUE) - 1)

\* What the specification says find_cursor() returns for cursor id.
FindRule(id) == IndexIn(VisibleOrder, id)

\* C12: find_cursor() returns k exactly when the cursor node is the k-th node
\* next_node reaches from the root (the root being the 0-th), returns none
\* exactly when the cursor node has a collapsed ancestor, and a call of it
\* changes neither the tree nor cursor, cursor_line and show_cursor.
C12_FindCursor ==
  /\ [](LET found == find_cursor(cursor)
            rule == FindRule(cursor)
        IN /\ found = rule
           /\ (found = None) <=> ~Shown(cursor)
           /\ probe.fn = "find_cursor" =>
                 probe.node = Some(cursor) /\ probe.result = rule)
  /\ [][(probe.fn = "" /\ probe'.fn = "find_cursor") =>
          UNCHANGED <<cursor, cursor_line, show_cursor, node_id, nodes, parent,
                      children, expanded>>]_vars

C12_Witness ==
  /\ probe = [fn |-> "find_cursor", node |-> Some(2), result |-> Some(3)]
  /\ children[0] = <<1, 2>>
  /\ children[1] = <<3>>

\* What a call of cursor_down or cursor_up is to do, given the node the
\* traversal names (none or the node to move to) and the change of the line.
RevealThenMove(to, by) ==
  IF ~show_cursor
  THEN show_cursor' /\ UNCHANGED <<cursor, cursor_line>>
  ELSE IF to # None
  THEN cursor' = to[1] /\ cursor_line' = cursor_line + by /\ show_cursor'
  ELSE UNCHANGED <<cursor, cursor_line, show_cursor>>

\* C13: a cursor_down or cursor_up made while show_cursor is false only sets
\* show_cursor; made while it is true it moves the cursor to the next or
\* previous node and the line by +1 or -1, or changes nothing when there is no
\* such node. From the root, cursor_down moves only to the first child of an
\* expanded root.
C13_RevealBeforeMoving ==
  [][/\ Called({"cursor_down"}) =>
          /\ RevealThenMove(NextRule(cursor), 1)
          /\ cursor = 0 =>
                cursor' = IF show_cursor /\ expanded[0] /\ children[0] # <<>>
                          THEN children[0][1] ELSE 0
     /\ Called({"cursor_up"}) => RevealThenMove(PreviousRule(cursor), 0 - 1)
     /\ Called({"cursor_down", "cursor_up"}) =>
          UNCHANGED <<node_id, nodes, parent, children, expanded, posted>>]_vars

\* The second cursor_down on an expanded root has moved to its first child.
C13_Witness ==
  /\ tlast = Did("cursor_down", None, "", TRUE, Some(<<0, 0>>))
  /\ cursor = 1
  /\ cursor_line = 1
  /\ show_cursor

\* What a click on node id is to leave in the three attributes.
ClickSets(id) ==
  /\ cursor' = id
  /\ cursor_line' = OrZero(FindRule(id))
  /\ show_cursor' = FALSE
  /\ cursor_down(Ctl)' = [Ctl' EXCEPT !.show_cursor = TRUE]
  /\ cursor_up(Ctl)' = [Ctl' EXCEPT !.show_cursor = TRUE]

\* C14: action_click_label(id) for an id in the index sets cursor to id,
\* cursor_line to the node's index in the visible order (0 when it is hidden)
\* and show_cursor to false, then posts exactly one bubbling TreeClick carrying
\* the node and returns; the next cursor_down or cursor_up only reveals.
C14_ClickPosts ==
  [][(Called({"click"}) /\ tlast'.arg[1] \in nodes) =>
        /\ ClickSets(tlast'.arg[1])
        /\ posted' = Append(posted, [type |-> "TreeClick", node |-> tlast'.arg[1],
                                      bubble |-> TRUE])
        /\ tlast'.raised = ""]_vars

\* The part of C14 the code keeps: the three attributes after a click.
ClickSetsAttributes ==
  [][(Called({"click"}) /\ tlast'.arg[1] \in nodes) => ClickSets(tlast'.arg[1])]_vars

\* How often node n occurs in the children lists of the nodes.
RECURSIVE Occurrences(_, _)
Occurrences(n, ps) ==
  IF ps = {} THEN 0
  ELSE LET p == CHOOSE q \in ps : TRUE
       IN Cardinality({i \in 1..Len(children[p]) : children[p][i] = n})
          + Occurrences(n, ps \ {p})

\* The index, the links and the id counter describe one tree.
TreeShape ==
  /\ cursor \in nodes
  /\ nodes = 0..node_id
  /\ DOMAIN parent = nodes /\ DOMAIN children = nodes /\ DOMAIN expanded = nodes
  /\ Range(Pre(0, TRUE)) = nodes
  /\ Len(Pre(0, TRUE)) = Cardinality(nodes)
  /\ parent[0] = None /\ Occurrences(0, nodes) = 0
  /\ \A n \in nodes \ {0} :
        /\ parent[n] # None /\ parent[n][1] \in nodes /\ parent[n][1] < n
        /\ Occurrences(n, nodes) = 1
        /\ Occurrences(n, {parent[n][1]}) = 1
  /\ \A p \in nodes : \A i, j \in 1..Len(children[p]) : i < j => children[p][i] < children[p][j]

\* C15: cursor is in the index; the index holds exactly the nodes of the tree;
\* ids are distinct and given out in increasing order, each add giving the
\* counter + 1 to a new last child of the parent; every node but the root is
\* in exactly one children list, once, that of its parent.
C15_TreeStructure ==
  /\ []TreeShape
  /\ [][(Called({"add"}) /\ tlast'.raised = "") =>
          LET p == tlast'.arg[1]
              new == node_id + 1
          IN /\ node_id' = new
             /\ nodes' = nodes \cup {new}
             /\ new \notin nodes
             /\ children'[p] = Append(children[p], new)
             /\ parent'[new] = Some(p)
             /\ children'[new] = <<>>
             /\ \A n \in nodes : parent'[n] = parent[n] /\ (n # p => children'[n] = children[n])]_vars

\* A fourth node has been added under node 1 while the cursor is on node 2.
C15_Witness ==
  /\ tlast = Did("add", Some(1), "", FALSE, None)
  /\ node_id = 3
  /\ children[0] = <<1, 2>>
  /\ children[1] = <<3>>
  /\ cursor = 2

\* C16: add and action_click_label called with an id that is not in the
\* index raise an error and change neither the id counter, the index, the
\* children lists, cursor, cursor_line and show_cursor nor the posted messages.
C16_LookupFailsFast ==
  [][(Called({"add", "click"}) /\ tlast'.arg[1] \notin nodes) =>
        /\ tlast'.raised = "KeyError"
        /\ UNCHANGED <<node_id, nodes, parent, children, expanded, cursor,
                       cursor_line, show_cursor, posted>>]_vars

\* A click on an id that is not in the index has raised while the cursor is
\* shown on node 1.
C16_Witness ==
  /\ tlast = Did("click", Some(2), "KeyError", FALSE, None)
  /\ nodes = {0, 1}
  /\ cursor = 1
  /\ show_cursor

\* Everything but the expanded flags.
ExpandFrame ==
  UNCHANGED <<node_id, nodes, parent, children, cursor, cursor_line, show_cursor, posted>>

\* C18: expand(b) sets the expanded flag of one node to b and toggle flips the
\* flag of one node (so a second toggle of it restores the flag); either
\* leaves the flags of all other nodes, the links, the index, the id counter
\* and cursor, cursor_line and show_cursor as they were.
C18_ExpandFrame ==
  [][/\ Called({"expand"}) =>
          /\ \E n \in nodes : expanded' = [expanded EXCEPT ![n] = tlast'.moved]
          /\ ExpandFrame
     /\ Called({"toggle"}) =>
          /\ \E n \in nodes :
                /\ expanded' = [expanded EXCEPT ![n] = ~expanded[n]]
                /\ [expanded' EXCEPT ![n] = ~expanded'[n]] = expanded
                /\ tlast'.moved = expanded'[n]
          /\ ExpandFrame]_vars

\* expand(true) has acted on node 1 of three, the cursor being shown on node 2.
C18_Witness ==
  /\ tlast = Did("expand", None, "", TRUE, None)
  /\ nodes = {0, 1, 2}
  /\ expanded = [n \in {0, 1, 2} |-> n = 1]
  /\ cursor = 2
  /\ show_cursor

\* A node the traversal returns is not inside a collapsed subtree.
ShownOrNone(result) == result # None => Shown(result[1])

\* C19: in every reachable state the nodes next_node and previous_node return
\* for the cursor node have all their ancestors expanded, and cursor_down and
\* cursor_up never move the cursor onto a node with a collapsed ancestor.
C19_TraversalFiltered ==
  /\ [](ShownOrNone(next_node(cursor)) /\ ShownOrNone(previous_node(cursor)))
  /\ [][(Called({"cursor_down", "cursor_up"}) /\ tlast'.moved) => Shown(cursor)']_vars

\* The part of C19 the code keeps: from a visible cursor node the traversal
\* returns visible nodes only.
VisibleStaysVisible ==
  Shown(cursor) => ShownOrNone(next_node(cursor)) /\ ShownOrNone(previous_node(cursor))

\* C20: on nodes whose ancestors are all expanded next_node and previous_node
\* undo each other, and a cursor_down that moves the shown cursor from such a
\* node, followed at once by cursor_up, brings cursor and cursor_line back.
C20_NextPreviousInverse ==
  /\ \A n \in nodes : Shown(n) =>
        /\ next_node(n) # None => previous_node(next_node(n)[1]) = Some(n)
        /\ previous_node(n) # None => next_node(previous_node(n)[1]) = Some(n)
  /\ (show_cursor /\ Shown(cursor) /\ cursor_down(Ctl) # Ctl) =>
        cursor_up(cursor_down(Ctl)) = Ctl
  /\ (tlast.op = "cursor_up" /\ tlast.from # None /\ Shown(tlast.from[1][1])) =>
        <<cursor, cursor_line>> = tlast.from[1]

\* cursor_down has moved from node 1 to its child 3, and cursor_up has come
\* back to node 1, whose next sibling is node 2.
C20_Witness ==
  /\ tlast = Did("cursor_up", None, "", TRUE, Some(<<1, 1>>))
  /\ children[0] = <<1, 2>>
  /\ children[1] = <<3>>
  /\ cursor = 1
  /\ cursor_line = 1

\* ---------------------------------------------------------------- bubbling
\* Widget w and its owners, up to the root of the chain.
RECURSIVE ChainFrom(_)
ChainFrom(w) == IF owner[w] = None THEN <<w>> ELSE <<w>> \o ChainFrom(owner[w][1])

\* The handler of widget w calls stop() on message m.
Stops(w, m) ==
  IF w = TreeWidget THEN m.type = "Key" /\ m.key \in {"down", "up", "enter"}
  ELSE handlers[w] = "stop"

\* The widgets of seq up to and with the first whose handler stops m.
RECURSIVE UntilStopped(_, _)
UntilStopped(seq, m) ==
  IF seq = <<>> THEN <<>>
  ELSE IF Stops(Head(seq), m) THEN <<Head(seq)>>
  ELSE <<Head(seq)>> \o UntilStopped(Tail(seq), m)

\* Where the specification has message m attempted, in order.
Route(m) == IF m.bubble THEN UntilStopped(ChainFrom(m.sender), m) ELSE <<m.sender>>

\* The message in flight has been attempted along its route, once at each
\* widget and in order, and at the end of the dispatch at all of the route:
\* with no handler that is the sender and every owner up to the root, and
\* nothing above a widget whose handler called stop().
BubblingKept ==
  msg # None =>
    LET m == msg[1]
        route == Route(m)
    IN /\ Len(attempts) <= Len(route)
       /\ attempts = SubSeq(route, 1, Len(attempts))
       /\ IF m.at = None THEN attempts = route
          ELSE Len(attempts) < Len(route) /\ m.at[1] = route[Len(attempts) + 1]
       /\ (m.type = "Key" /\ m.key \in {"down", "up", "enter"}) =>
             \A i \in 1..Len(attempts) : attempts[i] = TreeWidget
       /\ (m.type = "TreeClick" /\ m.at = None) =>
             attempts = UntilStopped(ChainFrom(TreeWidget), m)

\* Once the control has handled the enter key, the TreeClick for the cursor
\* node is posted and waits to be offered to the control and its owners.
EnterPostsClick ==
  (msg # None /\ msg[1].type = "Key" /\ msg[1].key = "enter" /\ attempts # <<>>
     /\ cursor \in nodes)
  => posted = <<[type |-> "TreeClick", node |-> cursor, bubble |-> TRUE]>>

====
